---- MODULE Spec2Model ----
(***************************************************************************)
(* A model of src/option.h: the firmware-log option (fw_logger_option),   *)
(* its background poller thread, and the hexify helper.                   *)
(*                                                                         *)
(* Every action is one access to shared state of the C++ code: a load or  *)
(* store of the atomic flag _keep_fw_logger_alive, the creation or join   *)
(* of the std::thread, one weak_ptr::lock, one hw_monitor::send.          *)
(***************************************************************************)
EXTENDS Integers, Sequences, FiniteSets, TLC

\* ------------------------------------------------------------------ bounds

\* The number of calls (set or destruction) the controlling thread
\* makes on the option.
MaxCalls == 4

\* The longest payload hw_monitor::send returns in the model.
MaxData == 2

\* ------------------------------------------------------- program constants

\* unsigned char / uint8_t: 0 .. ByteMax.
ByteMax == 255

\* The bytes the firmware returns in the lifecycle specification (the hex
\* specification covers all of 0..ByteMax).
Bytes == {1, 2, 10, 255}

\* The float arguments of set, in halves: 0 is 0.0, 1 is 0.5, 2 is 1.0, 3 is 1.5.
Values == {0, 1, 2, 3}

\* A caller of the option; the second one only acts in the specifications
\* of concurrent callers.
CallerIds == {1, 2}

\* One std::thread object per successful start.
ThreadIds == 1..MaxCalls

\* _fw_logger_thread holding no thread (a null unique_ptr).
NoThread == 0

\* ------------------------------------------------------------------- state

VARIABLES
    keep,       \* _keep_fw_logger_alive
    handle,     \* _fw_logger_thread: NoThread or the std::thread it owns
    spawned,    \* the number of std::thread objects created so far
    wpc,        \* wpc[t]: where thread t is in the lambda of start_fw_logger
    strong,     \* strong[t]: thread t's local `strong` holds the channel
    wdata,      \* wdata[t]: thread t's local `data`
    iter,       \* iter[t]: what thread t's current loop iteration has done
    joined,     \* joined[t]: join() on thread t has returned
    hwOwner,    \* the channel's owner still holds its shared_ptr
    active,     \* the callers of this run
    cpc,        \* cpc[c]: where caller c is in set / the destructor
    cur,        \* cur[c]: caller c's current or last call and the state it saw on entry
    ret,        \* ret[c]: how caller c's last call ended
    ncalls,     \* the number of calls made so far
    destroyed,  \* the destructor has released the members
    crashed,    \* std::terminate or a null dereference has happened
    post,       \* post[t]: the sleeps and sends thread t has finished while the flag was down
    hx_pc,      \* the hex specification: "in" before hexify is applied, "out" after
    hx_n,       \* the hex specification: the argument of hexify
    hx_out,     \* the hex specification: the result of hexify
    ov_kind,    \* the option-call specification: "xu", "sf" or "fw", the class of the option
    ov_T,       \* the scalar type T of a uvc_xu_option<T>
    ov_dev,     \* the backing store: the device's register and its range, or the struct's field
    ov_ctor,    \* the range given to struct_feild_option's constructor
    ov_range,   \* struct_feild_option::_range
    ov_last,    \* the argument of the last set that succeeded, if nothing failed since
    ov_call,    \* the last call on the option and how it ended
    ov_n        \* the number of calls made on the option

opt_vars == <<keep, handle, spawned, wpc, strong, wdata, iter, joined, hwOwner,
              active, cpc, cur, ret, ncalls, destroyed, crashed, post>>
hex_vars == <<hx_pc, hx_n, hx_out>>
ov_vars == <<ov_kind, ov_T, ov_dev, ov_ctor, ov_range, ov_last, ov_call, ov_n>>
side_vars == <<hex_vars, ov_vars>>
vars == <<opt_vars, side_vars>>

\* ------------------------------------------------------------------ hexify

HexDigits == <<"0", "1", "2", "3", "4", "5", "6", "7",
               "8", "9", "A", "B", "C", "D", "E", "F">>

\* The do-while loop: append the digit of n % 16, shift n right by 4, until n is 0.
RECURSIVE HexifyLoop(_, _)
HexifyLoop(n, res) ==
    LET r == Append(res, HexDigits[(n % 16) + 1])
        m == n \div 16
    IN  IF m # 0 THEN HexifyLoop(m, r) ELSE r

\* std::reverse.
Reverse(s) == [i \in 1..Len(s) |-> s[Len(s) + 1 - i]]

\* A mutant of hexify: the digits are left in the order the loop made them.
hexifyNoReverse(n) ==
    LET res == HexifyLoop(n, <<>>)
    IN  IF Len(res) = 1 THEN <<"0">> \o res ELSE res

\* A mutant of hexify: a single digit is not padded.
hexifyNoPad(n) == Reverse(HexifyLoop(n, <<>>))

hexify(n) ==
    LET res == Reverse(HexifyLoop(n, <<>>))
    IN  IF Len(res) = 1 THEN <<"0">> \o res ELSE res

\* ----------------------------------------------------------------- helpers

\* set's test `value >= 1`, on values in halves.
IsStart(v) == v >= 2

\* query(): float(int(_keep_fw_logger_alive)).
query == IF keep THEN 1 ELSE 0

\* The weak_ptr _hw locks to a non-null pointer while some shared_ptr to the
\* channel exists: the owner's, or a worker's local `strong`.
hwAlive == hwOwner \/ \E t \in ThreadIds : strong[t]

\* A thread that was started and has not left its lambda.
Live(t) == wpc[t] \notin {"none", "done"}

Payloads == UNION {[1..n -> Bytes] : n \in 0..MaxData}

\* "FW_Log_Data:"
Tag == <<"F", "W", "_", "L", "o", "g", "_", "D", "a", "t", "a", ":">>

\* The for loop over data: sstr << hexify(data[i]) << " ".
RECURSIVE Format(_, _, _)
Format(sstr, data, i) ==
    IF i > Len(data) THEN sstr
    ELSE Format(sstr \o hexify(data[i]) \o <<" ">>, data, i + 1)

NoIter == [lock |-> "none", send |-> "none", data |-> <<>>, lines |-> <<>>]
NoPost == [sleeps |-> 0, sends |-> 0]
NoCall == [op |-> "none", v |-> 0, preKeep |-> FALSE, preHandle |-> NoThread,
           preSpawned |-> 0, preJoined |-> {}, preLive |-> {}, entered |-> "none"]

Snapshot(op, v) ==
    [op |-> op, v |-> v, preKeep |-> keep, preHandle |-> handle,
     preSpawned |-> spawned, preJoined |-> {t \in ThreadIds : joined[t]},
     preLive |-> {t \in ThreadIds : Live(t)}, entered |-> "none"]

\* -------------------------------------------------------------------- Init

\* The state after fw_logger_option's constructor.
OptInit ==
    /\ keep = FALSE
    /\ handle = NoThread
    /\ spawned = 0
    /\ wpc = [t \in ThreadIds |-> "none"]
    /\ strong = [t \in ThreadIds |-> FALSE]
    /\ wdata = [t \in ThreadIds |-> <<>>]
    /\ iter = [t \in ThreadIds |-> NoIter]
    /\ joined = [t \in ThreadIds |-> FALSE]
    /\ hwOwner = TRUE
    /\ cpc = [c \in CallerIds |-> "idle"]
    /\ cur = [c \in CallerIds |-> NoCall]
    /\ ret = [c \in CallerIds |-> "none"]
    /\ ncalls = 0
    /\ destroyed = FALSE
    /\ crashed = FALSE
    /\ post = [t \in ThreadIds |-> NoPost]

HexIdle == hx_pc = "off" /\ hx_n = 0 /\ hx_out = <<>>

ZeroRange == [min |-> 0, max |-> 0, step |-> 0, def |-> 0]
NoOptCall == [op |-> "none", res |-> "none", val |-> 0, range |-> ZeroRange,
              err |-> "none", transport |-> "none", attempts |-> 0, access |-> "none",
              pre |-> <<>>]
NoLast == [valid |-> FALSE, v |-> 0]

\* No option of the option-call specification exists.
OvIdle ==
    /\ ov_kind = "off" /\ ov_T = "none" /\ ov_dev = <<>>
    /\ ov_ctor = ZeroRange /\ ov_range = ZeroRange
    /\ ov_last = NoLast /\ ov_call = NoOptCall /\ ov_n = 0

Init == OptInit /\ active = {1} /\ HexIdle /\ OvIdle

\* ----------------------------------------------------------- caller: set

\* set(value): the branch on value >= 1.
CallSet(c, v) ==
    /\ c \in active /\ cpc[c] = "idle" /\ ~destroyed /\ ~crashed
    /\ ncalls < MaxCalls
    /\ ncalls' = ncalls + 1
    /\ cur' = [cur EXCEPT ![c] = Snapshot("set", v)]
    /\ ret' = [ret EXCEPT ![c] = "pending"]
    /\ cpc' = [cpc EXCEPT ![c] = IF IsStart(v) THEN "start_check" ELSE "stop_check"]
    /\ UNCHANGED <<keep, handle, spawned, wpc, strong, wdata, iter, joined,
                   hwOwner, active, destroyed, crashed, post, side_vars>>

\* A mutant of StartCheck: the guard of start_fw_logger is missing.
StartCheckNoGuard(c) ==
    /\ cpc[c] = "start_check" /\ ~crashed
    /\ cur' = [cur EXCEPT ![c].entered = "start"]
    /\ cpc' = [cpc EXCEPT ![c] = "start_set"]
    /\ UNCHANGED <<keep, handle, spawned, wpc, strong, wdata, iter, joined,
                   hwOwner, active, ret, ncalls, destroyed, crashed, post, side_vars>>

\* A mutant of StartCheck: a start while running stops the logger's flag
\* before it reports the error.
StartCheckResets(c) ==
    /\ cpc[c] = "start_check" /\ ~crashed
    /\ cur' = [cur EXCEPT ![c].entered = "start"]
    /\ IF keep
       THEN /\ keep' = FALSE
            /\ ret' = [ret EXCEPT ![c] = "wrong_api_call_sequence"]
            /\ cpc' = [cpc EXCEPT ![c] = "idle"]
       ELSE /\ cpc' = [cpc EXCEPT ![c] = "start_set"]
            /\ UNCHANGED <<keep, ret>>
    /\ UNCHANGED <<handle, spawned, wpc, strong, wdata, iter, joined,
                   hwOwner, active, ncalls, destroyed, crashed, post, side_vars>>

\* start_fw_logger: if (_keep_fw_logger_alive) throw wrong_api_call_sequence_exception.
StartCheck(c) ==
    /\ cpc[c] = "start_check" /\ ~crashed
    /\ cur' = [cur EXCEPT ![c].entered = "start"]
    /\ IF keep
       THEN /\ ret' = [ret EXCEPT ![c] = "wrong_api_call_sequence"]
            /\ cpc' = [cpc EXCEPT ![c] = "idle"]
       ELSE /\ cpc' = [cpc EXCEPT ![c] = "start_set"]
            /\ UNCHANGED ret
    /\ UNCHANGED <<keep, handle, spawned, wpc, strong, wdata, iter, joined,
                   hwOwner, active, ncalls, destroyed, crashed, post, side_vars>>

\* A mutant of StartSet: the flag is not raised.
StartSetForgets(c) ==
    /\ cpc[c] = "start_set" /\ ~crashed
    /\ cpc' = [cpc EXCEPT ![c] = "start_spawn"]
    /\ UNCHANGED <<keep, handle, spawned, wpc, strong, wdata, iter, joined, hwOwner,
                   active, cur, ret, ncalls, destroyed, crashed, post, side_vars>>

\* start_fw_logger: _keep_fw_logger_alive = true.
StartSet(c) ==
    /\ cpc[c] = "start_set" /\ ~crashed
    /\ keep' = TRUE
    /\ cpc' = [cpc EXCEPT ![c] = "start_spawn"]
    /\ UNCHANGED <<handle, spawned, wpc, strong, wdata, iter, joined, hwOwner,
                   active, cur, ret, ncalls, destroyed, crashed, post, side_vars>>

\* start_fw_logger: _fw_logger_thread = unique_ptr<thread>(new thread(...)).
\* The allocation and the creation of the thread are taken to succeed.
\* The assignment destroys the std::thread the pointer held; destroying a
\* joinable std::thread calls std::terminate.
StartSpawn(c) ==
    /\ cpc[c] = "start_spawn" /\ ~crashed
    /\ spawned < MaxCalls
    /\ LET t == spawned + 1 IN
        /\ spawned' = t
        /\ wpc' = [wpc EXCEPT ![t] = "loop"]
        /\ handle' = t
    /\ crashed' = (handle # NoThread /\ ~joined[handle])
    /\ ret' = [ret EXCEPT ![c] = "ok"]
    /\ cpc' = [cpc EXCEPT ![c] = "idle"]
    /\ UNCHANGED <<keep, strong, wdata, iter, joined, hwOwner, active, cur,
                   ncalls, destroyed, post, side_vars>>

\* How stop_fw_logger's exception e leaves caller c: out of set to the caller,
\* or into the destructor's catch (...), which drops it.
Thrown(c, e) ==
    IF cur[c].op = "dtor"
    THEN /\ cpc' = [cpc EXCEPT ![c] = "dtor_release"]
         /\ UNCHANGED ret
    ELSE /\ cpc' = [cpc EXCEPT ![c] = "idle"]
         /\ ret' = [ret EXCEPT ![c] = e]

\* How stop_fw_logger's normal return leaves caller c.
Returned(c) ==
    IF cur[c].op = "dtor"
    THEN /\ cpc' = [cpc EXCEPT ![c] = "dtor_release"]
         /\ UNCHANGED ret
    ELSE /\ cpc' = [cpc EXCEPT ![c] = "idle"]
         /\ ret' = [ret EXCEPT ![c] = "ok"]

\* A mutant of StopCheck: the guard of stop_fw_logger is missing.
StopCheckNoGuard(c) ==
    /\ cpc[c] = "stop_check" /\ ~crashed
    /\ cur' = [cur EXCEPT ![c].entered = "stop"]
    /\ cpc' = [cpc EXCEPT ![c] = "stop_clear"]
    /\ UNCHANGED <<keep, handle, spawned, wpc, strong, wdata, iter, joined,
                   hwOwner, active, ret, ncalls, destroyed, crashed, post, side_vars>>

\* stop_fw_logger: if (!_keep_fw_logger_alive) throw wrong_api_call_sequence_exception.
StopCheck(c) ==
    /\ cpc[c] = "stop_check" /\ ~crashed
    /\ cur' = [cur EXCEPT ![c].entered = "stop"]
    /\ IF ~keep
       THEN Thrown(c, "wrong_api_call_sequence")
       ELSE /\ cpc' = [cpc EXCEPT ![c] = "stop_clear"]
            /\ UNCHANGED ret
    /\ UNCHANGED <<keep, handle, spawned, wpc, strong, wdata, iter, joined,
                   hwOwner, active, ncalls, destroyed, crashed, post, side_vars>>

\* A mutant of StopClear: the flag is left raised.
StopClearForgets(c) ==
    /\ cpc[c] = "stop_clear" /\ ~crashed
    /\ cpc' = [cpc EXCEPT ![c] = "stop_join"]
    /\ UNCHANGED <<keep, handle, spawned, wpc, strong, wdata, iter, joined, hwOwner,
                   active, cur, ret, ncalls, destroyed, crashed, post, side_vars>>

\* stop_fw_logger: _keep_fw_logger_alive = false.
StopClear(c) ==
    /\ cpc[c] = "stop_clear" /\ ~crashed
    /\ keep' = FALSE
    /\ cpc' = [cpc EXCEPT ![c] = "stop_join"]
    /\ UNCHANGED <<handle, spawned, wpc, strong, wdata, iter, joined, hwOwner,
                   active, cur, ret, ncalls, destroyed, crashed, post, side_vars>>

\* A mutant of StopJoin: stop returns without waiting for the thread.
StopJoinNoWait(c) ==
    /\ cpc[c] = "stop_join" /\ ~crashed
    /\ handle # NoThread
    /\ joined' = [joined EXCEPT ![handle] = TRUE]
    /\ Returned(c)
    /\ UNCHANGED <<keep, handle, spawned, wpc, strong, wdata, iter, hwOwner,
                   active, cur, ncalls, destroyed, crashed, post, side_vars>>

\* A mutant of StopJoin: stop returns with the thread neither waited for nor
\* joined.
StopJoinSkips(c) ==
    /\ cpc[c] = "stop_join" /\ ~crashed
    /\ Returned(c)
    /\ UNCHANGED <<keep, handle, spawned, wpc, strong, wdata, iter, joined, hwOwner,
                   active, cur, ncalls, destroyed, crashed, post, side_vars>>

\* stop_fw_logger: _fw_logger_thread->join(). A null pointer is dereferenced
\* (the process is lost); a thread already joined is not joinable and join
\* throws std::system_error; otherwise join blocks until the thread has left
\* its lambda.
StopJoin(c) ==
    /\ cpc[c] = "stop_join" /\ ~crashed
    /\ IF handle = NoThread
       THEN /\ crashed' = TRUE
            /\ UNCHANGED <<joined, cpc, ret>>
       ELSE IF joined[handle]
       THEN /\ Thrown(c, "system_error")
            /\ UNCHANGED <<joined, crashed>>
       ELSE /\ wpc[handle] = "done"
            /\ joined' = [joined EXCEPT ![handle] = TRUE]
            /\ Returned(c)
            /\ UNCHANGED crashed
    /\ UNCHANGED <<keep, handle, spawned, wpc, strong, wdata, iter, hwOwner,
                   active, cur, ncalls, destroyed, post, side_vars>>

\* ---------------------------------------------------- caller: destructor

\* A mutant of DtorCall: the destructor does not stop the logger.
DtorCallNoStop(c) ==
    /\ c \in active /\ cpc[c] = "idle" /\ ~destroyed /\ ~crashed
    /\ ncalls < MaxCalls
    /\ ncalls' = ncalls + 1
    /\ cur' = [cur EXCEPT ![c] = Snapshot("dtor", 0)]
    /\ ret' = [ret EXCEPT ![c] = "pending"]
    /\ cpc' = [cpc EXCEPT ![c] = "dtor_release"]
    /\ UNCHANGED <<keep, handle, spawned, wpc, strong, wdata, iter, joined,
                   hwOwner, active, destroyed, crashed, post, side_vars>>

\* ~fw_logger_option: try { if (_keep_fw_logger_alive) stop_fw_logger(); }
DtorCall(c) ==
    /\ c \in active /\ cpc[c] = "idle" /\ ~destroyed /\ ~crashed
    /\ ncalls < MaxCalls
    /\ ncalls' = ncalls + 1
    /\ cur' = [cur EXCEPT ![c] = Snapshot("dtor", 0)]
    /\ ret' = [ret EXCEPT ![c] = "pending"]
    /\ cpc' = [cpc EXCEPT ![c] = IF keep THEN "stop_check" ELSE "dtor_release"]
    /\ UNCHANGED <<keep, handle, spawned, wpc, strong, wdata, iter, joined,
                   hwOwner, active, destroyed, crashed, post, side_vars>>

\* The end of the destructor's body, then the members' destructors:
\* ~unique_ptr<std::thread> destroys the thread object, and destroying a
\* joinable std::thread calls std::terminate.
DtorRelease(c) ==
    /\ cpc[c] = "dtor_release" /\ ~crashed
    /\ destroyed' = TRUE
    /\ crashed' = (handle # NoThread /\ ~joined[handle])
    /\ ret' = [ret EXCEPT ![c] = "ok"]
    /\ cpc' = [cpc EXCEPT ![c] = "destroyed"]
    /\ UNCHANGED <<keep, handle, spawned, wpc, strong, wdata, iter, joined,
                   hwOwner, active, cur, ncalls, post, side_vars>>

\* ------------------------------------------------------------- the worker

\* The observer's count n of a worker's steps, one more if the step is taken
\* while the flag is down (the count stops at 2).
CountIfDown(n) == IF ~keep /\ n < 2 THEN n + 1 ELSE n

\* A mutant of WLoop: the flag is tested one iteration late.
WLoopStale(t) ==
    /\ wpc[t] = "loop" /\ ~crashed
    /\ wpc' = [wpc EXCEPT ![t] = IF keep \/ post[t].sleeps < 2 THEN "sleep" ELSE "done"]
    /\ iter' = [iter EXCEPT ![t] = NoIter]
    /\ UNCHANGED <<keep, handle, spawned, strong, wdata, joined, hwOwner,
                   active, cpc, cur, ret, ncalls, destroyed, crashed, post, side_vars>>

\* while (_keep_fw_logger_alive)
WLoop(t) ==
    /\ wpc[t] = "loop" /\ ~crashed
    /\ wpc' = [wpc EXCEPT ![t] = IF keep THEN "sleep" ELSE "done"]
    /\ iter' = [iter EXCEPT ![t] = NoIter]
    /\ UNCHANGED <<keep, handle, spawned, strong, wdata, joined, hwOwner,
                   active, cpc, cur, ret, ncalls, destroyed, crashed, post, side_vars>>

\* std::this_thread::sleep_for(milliseconds(_grab_rate_in_ms)) returns.
WSleep(t) ==
    /\ wpc[t] = "sleep" /\ ~crashed
    /\ wpc' = [wpc EXCEPT ![t] = "lock"]
    /\ post' = [post EXCEPT ![t].sleeps = CountIfDown(@)]
    /\ UNCHANGED <<keep, handle, spawned, strong, wdata, iter, joined, hwOwner,
                   active, cpc, cur, ret, ncalls, destroyed, crashed, side_vars>>

\* A mutant of WLock: the pointer is used whether or not lock() found the channel.
WLockNoTest(t) ==
    /\ wpc[t] = "lock" /\ ~crashed
    /\ strong' = [strong EXCEPT ![t] = hwAlive]
    /\ iter' = [iter EXCEPT ![t].lock = IF hwAlive THEN "ok" ELSE "expired"]
    /\ wpc' = [wpc EXCEPT ![t] = "send"]
    /\ UNCHANGED <<keep, handle, spawned, wdata, joined, hwOwner,
                   active, cpc, cur, ret, ncalls, destroyed, crashed, post, side_vars>>

\* auto strong = _hw.lock(); if (strong) ...
WLock(t) ==
    /\ wpc[t] = "lock" /\ ~crashed
    /\ IF hwAlive
       THEN /\ strong' = [strong EXCEPT ![t] = TRUE]
            /\ iter' = [iter EXCEPT ![t].lock = "ok"]
            /\ wpc' = [wpc EXCEPT ![t] = "send"]
       ELSE /\ iter' = [iter EXCEPT ![t].lock = "expired"]
            /\ wpc' = [wpc EXCEPT ![t] = "loop"]
            /\ UNCHANGED strong
    /\ UNCHANGED <<keep, handle, spawned, wdata, joined, hwOwner,
                   active, cpc, cur, ret, ncalls, destroyed, crashed, post, side_vars>>

\* auto data = strong->send(cmd) returns a payload.
WSendOk(t) ==
    /\ wpc[t] = "send" /\ ~crashed
    /\ \E d \in Payloads :
        /\ wdata' = [wdata EXCEPT ![t] = d]
        /\ iter' = [iter EXCEPT ![t].send = "ok", ![t].data = d]
    /\ wpc' = [wpc EXCEPT ![t] = "fmt"]
    /\ post' = [post EXCEPT ![t].sends = CountIfDown(@)]
    /\ UNCHANGED <<keep, handle, spawned, strong, joined, hwOwner,
                   active, cpc, cur, ret, ncalls, destroyed, crashed, side_vars>>

\* A mutant of WSendThrows: the exception leaves the loop and the lambda ends.
WSendThrowsExits(t) ==
    /\ wpc[t] = "send" /\ ~crashed
    /\ iter' = [iter EXCEPT ![t].send = "error"]
    /\ strong' = [strong EXCEPT ![t] = FALSE]
    /\ wpc' = [wpc EXCEPT ![t] = "done"]
    /\ post' = [post EXCEPT ![t].sends = CountIfDown(@)]
    /\ UNCHANGED <<keep, handle, spawned, wdata, joined, hwOwner,
                   active, cpc, cur, ret, ncalls, destroyed, crashed, side_vars>>

\* strong->send(cmd) throws: the stack unwinds (strong is released) into
\* catch (...), which drops the exception; the loop goes on.
WSendThrows(t) ==
    /\ wpc[t] = "send" /\ ~crashed
    /\ iter' = [iter EXCEPT ![t].send = "error"]
    /\ strong' = [strong EXCEPT ![t] = FALSE]
    /\ wpc' = [wpc EXCEPT ![t] = "loop"]
    /\ post' = [post EXCEPT ![t].sends = CountIfDown(@)]
    /\ UNCHANGED <<keep, handle, spawned, wdata, joined, hwOwner,
                   active, cpc, cur, ret, ncalls, destroyed, crashed, side_vars>>

\* A mutant of WEmit: the line is logged whether or not data is empty.
WEmitAlways(t) ==
    /\ wpc[t] = "fmt" /\ ~crashed
    /\ iter' = [iter EXCEPT ![t].lines = Append(@, Format(Tag, wdata[t], 1))]
    /\ wdata' = [wdata EXCEPT ![t] = <<>>]
    /\ strong' = [strong EXCEPT ![t] = FALSE]
    /\ wpc' = [wpc EXCEPT ![t] = "loop"]
    /\ UNCHANGED <<keep, handle, spawned, joined, hwOwner,
                   active, cpc, cur, ret, ncalls, destroyed, crashed, post, side_vars>>

\* A mutant of WEmit: strong is declared outside the loop and stays held.
WEmitKeeps(t) ==
    /\ wpc[t] = "fmt" /\ ~crashed
    /\ LET sstr == Format(Tag, wdata[t], 1) IN
        iter' = [iter EXCEPT ![t].lines =
                    IF wdata[t] # <<>> THEN Append(@, sstr) ELSE @]
    /\ wdata' = [wdata EXCEPT ![t] = <<>>]
    /\ wpc' = [wpc EXCEPT ![t] = "loop"]
    /\ UNCHANGED <<keep, handle, spawned, strong, joined, hwOwner,
                   active, cpc, cur, ret, ncalls, destroyed, crashed, post, side_vars>>

\* sstr << "FW_Log_Data:"; the for loop; if (!data.empty()) LOG_INFO(sstr.str());
\* then the end of the if block, where data and strong go out of scope.
WEmit(t) ==
    /\ wpc[t] = "fmt" /\ ~crashed
    /\ LET sstr == Format(Tag, wdata[t], 1) IN
        iter' = [iter EXCEPT ![t].lines =
                    IF wdata[t] # <<>> THEN Append(@, sstr) ELSE @]
    /\ wdata' = [wdata EXCEPT ![t] = <<>>]
    /\ strong' = [strong EXCEPT ![t] = FALSE]
    /\ wpc' = [wpc EXCEPT ![t] = "loop"]
    /\ UNCHANGED <<keep, handle, spawned, joined, hwOwner,
                   active, cpc, cur, ret, ncalls, destroyed, crashed, post, side_vars>>

\* ---------------------------------------------------------- environment

\* The channel's owner drops its shared_ptr<hw_monitor>.
ReleaseHw ==
    /\ hwOwner /\ ~crashed
    /\ hwOwner' = FALSE
    /\ UNCHANGED <<keep, handle, spawned, wpc, strong, wdata, iter, joined,
                   active, cpc, cur, ret, ncalls, destroyed, crashed, post, side_vars>>

\* ------------------------------------------------------------------- Next

Caller(c) ==
    \/ \E v \in Values : CallSet(c, v)
    \/ StartCheck(c)
    \/ StartSet(c)
    \/ StartSpawn(c)
    \/ StopCheck(c)
    \/ StopClear(c)
    \/ StopJoin(c)
    \/ DtorCall(c)
    \/ DtorRelease(c)

Worker(t) ==
    \/ WLoop(t)
    \/ WSleep(t)
    \/ WLock(t)
    \/ WSendOk(t)
    \/ WSendThrows(t)
    \/ WEmit(t)

OptNext ==
    \/ \E c \in CallerIds : Caller(c)
    \/ \E t \in ThreadIds : Worker(t)
    \/ ReleaseHw

Next == OptNext

Spec == Init /\ [][Next]_vars

\* The scheduler gives every thread that can take a step a step: the worker
\* (each sleep and each send returns) and the caller inside a call.
Fairness ==
    /\ \A t \in ThreadIds : WF_vars(Worker(t))
    /\ \A c \in CallerIds :
            WF_vars(StartCheck(c) \/ StartSet(c) \/ StartSpawn(c) \/ StopCheck(c)
                    \/ StopClear(c) \/ StopJoin(c) \/ DtorRelease(c))

SpecFair == Init /\ [][Next]_vars /\ Fairness

\* ------------------------------------- two callers on the same option

\* Two threads call set on the option, with nothing ordering their calls.
InitMT == OptInit /\ active = CallerIds /\ HexIdle /\ OvIdle

NextMT ==
    \/ \E c \in CallerIds, v \in Values : CallSet(c, v)
    \/ \E c \in CallerIds : StartCheck(c)
    \/ \E c \in CallerIds : StartSet(c)
    \/ \E c \in CallerIds : StartSpawn(c)
    \/ \E c \in CallerIds : StopCheck(c)
    \/ \E c \in CallerIds : StopClear(c)
    \/ \E c \in CallerIds : StopJoin(c)
    \/ \E t \in ThreadIds : Worker(t)
    \/ ReleaseHw

SpecMT == InitMT /\ [][NextMT]_vars

\* ------------------------------------------------- the hex specification

HexInit ==
    /\ OptInit /\ active = {1} /\ OvIdle
    /\ hx_pc = "in" /\ hx_n \in 0..ByteMax /\ hx_out = <<>>

\* hexify(n) is called and returns.
HexApply ==
    /\ hx_pc = "in"
    /\ hx_out' = hexify(hx_n)
    /\ hx_pc' = "out"
    /\ UNCHANGED <<hx_n, opt_vars, ov_vars>>

HexNext == HexApply

SpecHex == HexInit /\ [][HexNext]_vars

\* ------------------------------------- the option-call specification
\* One option of class uvc_xu_option<T>, struct_feild_option or
\* fw_logger_option, and a sequence of set / query / get_range calls on it by
\* one thread. A float is written as the integer number of its halves, so
\* that 3 is 1.5f.

\* The number of calls made on the option.
MaxOptCalls == 3

\* The bits of a float's significand.
FloatMant == 24

RECURSIVE Pow2(_)
Pow2(n) == IF n = 0 THEN 1 ELSE 2 * Pow2(n - 1)

Abs(x) == IF x < 0 THEN -x ELSE x

\* The distance between neighbouring floats at magnitude a (at least 1).
RECURSIVE Spacing(_, _)
Spacing(a, s) == IF a \div s < Pow2(FloatMant) THEN s ELSE Spacing(a, 2 * s)

\* A mutant of FloatOfInt: the integer is cut to the significand's bits.
FloatOfIntWraps(t) == 2 * (t % Pow2(FloatMant))

\* static_cast<float>(t) for an integer t: the nearest float, ties to even.
FloatOfInt(t) ==
    LET a == Abs(t)
        s == Spacing(a, 1)
        q == a \div s
        r == a % s
        m == IF 2 * r > s \/ (2 * r = s /\ q % 2 = 1) THEN q + 1 ELSE q
    IN  2 * (IF t < 0 THEN -(m * s) ELSE m * s)

\* h halves is a value a float can hold.
IsFloat(h) ==
    IF h % 2 = 0 THEN FloatOfInt(h \div 2) = h ELSE Abs(h) < Pow2(FloatMant)

XuTypes == {"uint8_t", "uint16_t", "int32_t"}

\* sizeof(T)
SizeOf(T) == CASE T = "uint8_t" -> 1 [] T = "uint16_t" -> 2 [] T = "int32_t" -> 4

IsSigned(T) == T = "int32_t"

TMin(T) == IF IsSigned(T) THEN (-Pow2(8 * SizeOf(T) - 2)) * 2 ELSE 0
TMax(T) == IF IsSigned(T) THEN (Pow2(8 * SizeOf(T) - 2) - 1) * 2 + 1
           ELSE Pow2(8 * SizeOf(T)) - 1

\* The value of h halves with its fraction dropped.
TowardZero(h) == IF h >= 0 THEN h \div 2 ELSE -((-h) \div 2)

\* static_cast<T> of h halves is defined: the truncated value fits T.
Fits(T, h) == TMin(T) <= TowardZero(h) /\ TowardZero(h) <= TMax(T)

\* A mutant of Narrow: set rounds to the nearest integer.
NarrowRounds(T, h) ==
    IF Fits(T, h) THEN {(h + 1) \div 2} ELSE {TMin(T), 0, TMax(T)}

\* T t = static_cast<T>(value): the fraction is dropped; a value that does
\* not fit T is undefined behaviour, and any t may come out.
Narrow(T, h) ==
    IF Fits(T, h) THEN {TowardZero(h)} ELSE {TMin(T), 0, TMax(T)}

\* reinterpret_cast<uint8_t*>(&t), sizeof(T): the bytes of t, lowest first.
ToBytes(T, t) == [i \in 1..SizeOf(T) |-> (t \div Pow2(8 * (i - 1))) % (ByteMax + 1)]

\* The T whose bytes are b.
FromBytes(T, b) ==
    LET n == SizeOf(T)
        top == IF IsSigned(T) /\ b[n] > ByteMax \div 2 THEN b[n] - (ByteMax + 1) ELSE b[n]
        lowbytes[i \in 1..n] == IF i = 1 THEN 0 ELSE b[i - 1] * Pow2(8 * (i - 2)) + lowbytes[i - 1]
    IN  top * Pow2(8 * (n - 1)) + lowbytes[n]

\* The floats set is called with, in halves, for an option of type T.
XuArgs(T) ==
    LET all == CASE T = "uint8_t" -> ((-2)..12) \cup (252..259)
                                        \cup ((2 * ByteMax - 3)..(2 * ByteMax + 2))
                 [] T = "uint16_t" -> {-2, -1, 0, 1, 2, 3, 511, 512, 513,
                                       131069, 131070, 131071, 131072}
                 [] T = "int32_t" -> {-3, -2, -1, 0, 1, 2, 3}
                        \cup {2 * k : k \in 16777213..16777220}
                        \cup {-(2 * k) : k \in 16777213..16777220}
                 [] OTHER -> {}
    IN  {h \in all : IsFloat(h)}

\* The integers a register of type T holds when the option is made.
XuRegs(T) ==
    CASE T = "uint8_t" -> {0, 200}
      [] T = "uint16_t" -> {0, 40000}
      [] T = "int32_t" -> {0, 16777217, -5}

\* The ranges (integers) the device reports for a register.
XuRanges(T) ==
    CASE T = "uint8_t" -> {[min |-> 0, max |-> 255, step |-> 1, def |-> 128],
                           [min |-> 10, max |-> 5, step |-> 1, def |-> 20]}
      [] T = "uint16_t" -> {[min |-> 0, max |-> 65535, step |-> 5, def |-> 0],
                            [min |-> 3, max |-> 3, step |-> 0, def |-> 3]}
      [] T = "int32_t" -> {[min |-> 16777216, max |-> 16777218, step |-> 1, def |-> 16777217],
                           [min |-> -16777219, max |-> 16777219, step |-> 1, def |-> 0],
                           [min |-> 0, max |-> 100, step |-> 1, def |-> -1]}

\* The ranges (in halves) a struct_feild_option is constructed with.
SfRanges ==
    {[min |-> 0, max |-> 2, step |-> 2, def |-> 0],
     [min |-> -4, max |-> 9, step |-> 1, def |-> 3],
     [min |-> 4, max |-> 0, step |-> 2, def |-> 8]}

\* The floats (in halves) set is called with on a struct_feild_option.
SfArgs == (-4)..12

\* What a failing transport call throws.
TransportErrors == {"io_error", "timeout"}

\* The option and its backing store after construction.
OvInit ==
    /\ OptInit /\ active = {1} /\ HexIdle
    /\ ov_kind \in {"xu", "sf", "fw"}
    /\ ov_T \in (IF ov_kind = "xu" THEN XuTypes ELSE {"none"})
    /\ ov_dev \in (CASE ov_kind = "xu" ->
                          {[reg |-> ToBytes(ov_T, r), range |-> g] :
                              r \in XuRegs(ov_T), g \in XuRanges(ov_T)}
                     [] ov_kind = "sf" -> {[field |-> f] : f \in {0, 5}}
                     [] ov_kind = "fw" -> {<<>>})
    /\ ov_ctor \in (IF ov_kind = "sf" THEN SfRanges ELSE {ZeroRange})
    /\ ov_range = ov_ctor
    /\ ov_last = NoLast
    /\ ov_call = NoOptCall
    /\ ov_n = 0

\* uvc_endpoint::invoke_powered(fn): fn runs once, with the device powered,
\* and what it returns or throws is what invoke_powered returns or throws.
InvokePowered(fn) == [fn EXCEPT !.attempts = @ + 1]

\* What the lambda of a call has done when the transport call in it ended
\* with e ("ok" or an error).
Lambda(op, e) ==
    [NoOptCall EXCEPT !.op = op, !.transport = e,
                      !.res = IF e = "ok" THEN "void" ELSE "error",
                      !.err = IF e = "ok" THEN "none" ELSE e]

\* uvc_xu_option<T>::set: the float is narrowed to T and its bytes are
\* written with set_xu, inside invoke_powered.
XuSet(v) ==
    /\ ov_kind = "xu" /\ ov_n < MaxOptCalls
    /\ ov_n' = ov_n + 1
    /\ \E t \in Narrow(ov_T, v), e \in {"ok"} \cup TransportErrors :
        /\ ov_call' = InvokePowered(Lambda("set", e))
        /\ ov_dev' = IF e = "ok" THEN [ov_dev EXCEPT !.reg = ToBytes(ov_T, t)] ELSE ov_dev
        /\ ov_last' = IF e = "ok" THEN [valid |-> TRUE, v |-> v] ELSE NoLast
    /\ UNCHANGED <<ov_kind, ov_T, ov_ctor, ov_range, opt_vars, hex_vars>>

\* A mutant of XuQuery: a failed read is answered with 0.
XuQuerySwallows ==
    /\ ov_kind = "xu" /\ ov_n < MaxOptCalls
    /\ ov_n' = ov_n + 1
    /\ \E e \in {"ok"} \cup TransportErrors :
        ov_call' = [InvokePowered(Lambda("query", e)) EXCEPT
                        !.res = "value", !.err = "none",
                        !.val = IF e = "ok" THEN FloatOfInt(FromBytes(ov_T, ov_dev.reg))
                                ELSE 0]
    /\ UNCHANGED <<ov_kind, ov_T, ov_dev, ov_ctor, ov_range, ov_last, opt_vars, hex_vars>>

\* uvc_xu_option<T>::query: get_xu fills the bytes of a T, inside
\* invoke_powered; the T is widened to float.
XuQuery ==
    /\ ov_kind = "xu" /\ ov_n < MaxOptCalls
    /\ ov_n' = ov_n + 1
    /\ \E e \in {"ok"} \cup TransportErrors :
        ov_call' = IF e = "ok"
                   THEN [InvokePowered(Lambda("query", e)) EXCEPT
                            !.res = "value",
                            !.val = FloatOfInt(FromBytes(ov_T, ov_dev.reg))]
                   ELSE InvokePowered(Lambda("query", e))
    /\ UNCHANGED <<ov_kind, ov_T, ov_dev, ov_ctor, ov_range, ov_last, opt_vars, hex_vars>>

\* uvc_xu_option<T>::get_range: get_xu_range inside invoke_powered; each of
\* min, max, def and step is widened to float.
XuGetRange ==
    /\ ov_kind = "xu" /\ ov_n < MaxOptCalls
    /\ ov_n' = ov_n + 1
    /\ \E e \in {"ok"} \cup TransportErrors :
        ov_call' = IF e = "ok"
                   THEN [InvokePowered(Lambda("get_range", e)) EXCEPT
                            !.res = "range",
                            !.range = [min |-> FloatOfInt(ov_dev.range.min),
                                       max |-> FloatOfInt(ov_dev.range.max),
                                       def |-> FloatOfInt(ov_dev.range.def),
                                       step |-> FloatOfInt(ov_dev.range.step)]]
                   ELSE InvokePowered(Lambda("get_range", e))
    /\ UNCHANGED <<ov_kind, ov_T, ov_dev, ov_ctor, ov_range, ov_last, opt_vars, hex_vars>>

\* struct_feild_option::set: _struct_interface->set(_field, value).
SfSet(v) ==
    /\ ov_kind = "sf" /\ ov_n < MaxOptCalls
    /\ ov_n' = ov_n + 1
    /\ ov_dev' = [ov_dev EXCEPT !.field = v]
    /\ ov_call' = [NoOptCall EXCEPT !.op = "set", !.res = "void",
                                    !.access = "set", !.pre = ov_dev]
    /\ ov_last' = [valid |-> TRUE, v |-> v]
    /\ UNCHANGED <<ov_kind, ov_T, ov_ctor, ov_range, opt_vars, hex_vars>>

\* struct_feild_option::query: return _struct_interface->get(_field).
SfQuery ==
    /\ ov_kind = "sf" /\ ov_n < MaxOptCalls
    /\ ov_n' = ov_n + 1
    /\ ov_call' = [NoOptCall EXCEPT !.op = "query", !.res = "value",
                                    !.val = ov_dev.field,
                                    !.access = "get", !.pre = ov_dev]
    /\ UNCHANGED <<ov_kind, ov_T, ov_dev, ov_ctor, ov_range, ov_last, opt_vars, hex_vars>>

\* A mutant of SfGetRange: the range is rebuilt around the field's current value.
SfGetRangeReads ==
    /\ ov_kind = "sf" /\ ov_n < MaxOptCalls
    /\ ov_n' = ov_n + 1
    /\ ov_range' = [ov_range EXCEPT !.def = ov_dev.field]
    /\ ov_call' = [NoOptCall EXCEPT !.op = "get_range", !.res = "range",
                                    !.range = ov_range', !.access = "get",
                                    !.pre = ov_dev]
    /\ UNCHANGED <<ov_kind, ov_T, ov_dev, ov_ctor, ov_last, opt_vars, hex_vars>>

\* struct_feild_option::get_range: return _range.
SfGetRange ==
    /\ ov_kind = "sf" /\ ov_n < MaxOptCalls
    /\ ov_n' = ov_n + 1
    /\ ov_call' = [NoOptCall EXCEPT !.op = "get_range", !.res = "range",
                                    !.range = ov_range, !.pre = ov_dev]
    /\ UNCHANGED <<ov_kind, ov_T, ov_dev, ov_ctor, ov_range, ov_last, opt_vars, hex_vars>>

\* A mutant of FwRange: min and max are written in the wrong order.
FwRangeSwapped == [min |-> 2, max |-> 0, step |-> 2, def |-> 0]

\* fw_logger_option::get_range: option_range result{0, 1, 1, 0}, in the
\* order min, max, step, def of the struct.
FwRange == [min |-> 0, max |-> 2, step |-> 2, def |-> 0]

FwGetRange ==
    /\ ov_kind = "fw" /\ ov_n < MaxOptCalls
    /\ ov_n' = ov_n + 1
    /\ ov_call' = [NoOptCall EXCEPT !.op = "get_range", !.res = "range",
                                    !.range = FwRange]
    /\ UNCHANGED <<ov_kind, ov_T, ov_dev, ov_ctor, ov_range, ov_last, opt_vars, hex_vars>>

OvNext ==
    \/ \E v \in XuArgs(ov_T) : XuSet(v)
    \/ XuQuery
    \/ XuGetRange
    \/ \E v \in SfArgs : SfSet(v)
    \/ SfQuery
    \/ SfGetRange
    \/ FwGetRange

SpecOpt == OvInit /\ [][OvNext]_vars

\* ================================================================ claims

\* The threads join() has returned for.
Joined == {t \in ThreadIds : joined[t]}

\* Caller c is between calls.
Idle(c) == cpc[c] = "idle"

\* Caller c's last (or current) call is set(v) with v >= 1, resp. v < 1.
IsStartCall(c) == cur[c].op = "set" /\ IsStart(cur[c].v)
IsStopCall(c) == cur[c].op = "set" /\ ~IsStart(cur[c].v)

\* C1: a set(v) with v >= 1 issued while the flag is raised never passes the
\* guard of start_fw_logger, creates no thread and leaves the thread handle
\* alone, and it ends with wrong_api_call_sequence_exception.
C1_StartWhileRunningFails ==
    \A c \in active :
        (IsStartCall(c) /\ cur[c].preKeep) =>
            /\ spawned = cur[c].preSpawned
            /\ handle = cur[c].preHandle
            /\ cpc[c] \in {"start_check", "idle"}
            /\ Idle(c) => ret[c] = "wrong_api_call_sequence"

C1_Witness ==
    /\ Idle(1) /\ IsStartCall(1) /\ cur[1].preKeep
    /\ ret[1] = "wrong_api_call_sequence"
    /\ spawned = 1 /\ Live(1)

\* C2: a set(v) with v < 1 issued while the flag is down (on a fresh option
\* too) never passes the guard of stop_fw_logger, joins no thread, and ends
\* with wrong_api_call_sequence_exception.
C2_StopWhileStoppedFails ==
    \A c \in active :
        (IsStopCall(c) /\ ~cur[c].preKeep) =>
            /\ Joined = cur[c].preJoined
            /\ cpc[c] \in {"stop_check", "idle"}
            /\ ~crashed
            /\ Idle(c) => ret[c] = "wrong_api_call_sequence"

\* The failed stop is the first call on a fresh option.
C2_Witness ==
    /\ Idle(1) /\ IsStopCall(1) /\ ~cur[1].preKeep
    /\ ncalls = 1 /\ spawned = 0
    /\ ret[1] = "wrong_api_call_sequence"

\* C3: in every state query() is 0 or 1, and 1 exactly when the flag is
\* raised; it is 0 on a fresh option, 1 when a start has just returned
\* normally, 0 when a stop has just returned normally; and between calls it
\* is 1 exactly when the option has a worker that has not exited.
C3_QueryTracksState ==
    /\ query \in {0, 1}
    /\ query = 1 <=> keep
    /\ ncalls = 0 => query = 0
    /\ \A c \in active :
        /\ (Idle(c) /\ IsStartCall(c) /\ ret[c] = "ok") => query = 1
        /\ (Idle(c) /\ IsStopCall(c) /\ ret[c] = "ok") => query = 0
        /\ Idle(c) => (query = 1 <=> \E t \in ThreadIds : Live(t))

\* A second successful start: query is 1 again after a stop.
C3_Witness ==
    /\ Idle(1) /\ IsStartCall(1) /\ ret[1] = "ok"
    /\ spawned = 2 /\ query = 1

\* C4: when a stop has returned normally, the thread it joined has left its
\* lambda; and from then until the next start raises the flag (in every
\* state where the flag is down and no stop is waiting in join), no thread
\* of the option is live and no send or log step can happen.
C4_StopReturnsAfterExit ==
    /\ \A c \in active :
        (Idle(c) /\ IsStopCall(c) /\ ret[c] = "ok") =>
            /\ ~keep
            /\ cur[c].preHandle # NoThread
            /\ wpc[cur[c].preHandle] = "done"
            /\ joined[cur[c].preHandle]
    /\ (~keep /\ \A c \in active : cpc[c] # "stop_join") =>
            \A t \in ThreadIds :
                /\ ~Live(t)
                /\ ~ENABLED (WSendOk(t) \/ WSendThrows(t) \/ WEmit(t))

C4_Witness ==
    /\ Idle(1) /\ IsStopCall(1) /\ ret[1] = "ok"
    /\ wpc[1] = "done" /\ joined[1]

\* C5 as stated: in every state, a live worker exists iff the flag is raised.
C5_Original == (\E t \in ThreadIds : Live(t)) <=> keep

\* C5 as amended: whenever the caller is between calls (no set and no
\* destruction is in progress), a live worker exists iff the flag is raised.
C5_BetweenCalls ==
    (\A c \in active : cpc[c] \in {"idle", "destroyed"}) =>
        ((\E t \in ThreadIds : Live(t)) <=> keep)

C5_Witness == Idle(1) /\ keep /\ Live(2) /\ handle = 2 /\ ~Live(1)

\* C6: a destruction never ends in an error; begun with the flag raised it
\* runs stop_fw_logger, so that before the members are released the flag is
\* down and the worker has been joined; begun with the flag down it runs no
\* stop and joins nothing; once it is over no thread of the option is live
\* and no joinable std::thread was destroyed.
C6_DtorSafe ==
    \A c \in active :
        cur[c].op = "dtor" =>
            /\ ret[c] \in {"pending", "ok"}
            /\ ~crashed
            /\ (cur[c].preKeep /\ cpc[c] \in {"dtor_release", "destroyed"}) =>
                    /\ cur[c].entered = "stop"
                    /\ ~keep
                    /\ joined[cur[c].preHandle]
                    /\ ~Live(cur[c].preHandle)
            /\ ~cur[c].preKeep =>
                    /\ cur[c].entered = "none"
                    /\ Joined = cur[c].preJoined
                    /\ cpc[c] \in {"dtor_release", "destroyed"}
            /\ cpc[c] = "destroyed" =>
                    /\ ret[c] = "ok"
                    /\ \A t \in ThreadIds : ~Live(t)

C6_Witness ==
    /\ cpc[1] = "destroyed" /\ cur[1].op = "dtor" /\ cur[1].preKeep
    /\ destroyed /\ joined[1] /\ ret[1] = "ok"

\* C7: an iteration whose lock() found the channel expired has sent nothing
\* and logged nothing, holds no pointer, and is back at the loop test, not
\* out of the loop; a thread is only ever at or past the send in an
\* iteration whose own lock() found the channel; and once the channel is
\* gone no send can happen.
C7_ExpiredSkips ==
    \A t \in ThreadIds :
        /\ iter[t].lock = "expired" =>
                /\ iter[t].send = "none"
                /\ iter[t].lines = <<>>
                /\ ~strong[t]
                /\ wpc[t] = "loop"
                /\ ENABLED WLoop(t)
        /\ (wpc[t] \in {"send", "fmt"} \/ iter[t].send # "none") =>
                iter[t].lock = "ok"
        /\ wpc[t] \in {"send", "fmt"} => strong[t]
        /\ ~hwAlive => ~ENABLED (WSendOk(t) \/ WSendThrows(t))

\* The channel expired after an earlier iteration of the same thread was
\* sent to: the owner let go while the worker was running.
C7_Witness ==
    /\ iter[1].lock = "expired" /\ wpc[1] = "loop" /\ keep
    /\ ~hwOwner /\ ~hwAlive

\* C8: a set that ended with wrong_api_call_sequence_exception left the flag,
\* the thread handle, the set of live workers, the set of joined threads and
\* the value of query() as they were on entry.
C8_FailedSetNoChange ==
    \A c \in active :
        (Idle(c) /\ cur[c].op = "set" /\ ret[c] = "wrong_api_call_sequence") =>
            /\ keep = cur[c].preKeep
            /\ query = (IF cur[c].preKeep THEN 1 ELSE 0)
            /\ handle = cur[c].preHandle
            /\ spawned = cur[c].preSpawned
            /\ Joined = cur[c].preJoined
            /\ {t \in ThreadIds : Live(t)} = cur[c].preLive

\* A failed start on a running option: its worker is still there.
C8_Witness ==
    /\ Idle(1) /\ IsStartCall(1) /\ ret[1] = "wrong_api_call_sequence"
    /\ keep /\ handle = 1 /\ Live(1)

\* The upper-case hexadecimal digit of d, 0 <= d <= 15.
UpperHexDigit(d) ==
    CASE d = 0 -> "0" [] d = 1 -> "1" [] d = 2 -> "2" [] d = 3 -> "3"
      [] d = 4 -> "4" [] d = 5 -> "5" [] d = 6 -> "6" [] d = 7 -> "7"
      [] d = 8 -> "8" [] d = 9 -> "9" [] d = 10 -> "A" [] d = 11 -> "B"
      [] d = 12 -> "C" [] d = 13 -> "D" [] d = 14 -> "E" [] d = 15 -> "F"

\* C9: for every byte b, hexify(b) is the upper-case digit of b div 16
\* followed by the upper-case digit of b mod 16.
C9_HexifyTwoDigits ==
    hx_pc = "out" =>
        /\ Len(hx_out) = 2
        /\ hx_out = <<UpperHexDigit(hx_n \div 16), UpperHexDigit(hx_n % 16)>>
        /\ hx_n = 10 => hx_out = <<"0", "A">>
        /\ hx_n = 255 => hx_out = <<"F", "F">>
        /\ hx_n = 0 => hx_out = <<"0", "0">>

C9_Witness == hx_pc = "out" /\ hx_n = 10 /\ hx_out = <<"0", "A">>

\* The payload of a log line: two digits and a space for each byte.
RECURSIVE ExpectedPayload(_)
ExpectedPayload(data) ==
    IF data = <<>> THEN <<>>
    ELSE <<UpperHexDigit(Head(data) \div 16), UpperHexDigit(Head(data) % 16), " ">>
            \o ExpectedPayload(Tail(data))

\* An iteration of thread t is over: it is back at the loop test.
IterationOver(t) == wpc[t] = "loop" /\ iter[t].lock # "none"

\* C10: an iteration logs at most one line; a line is logged only after a
\* send that returned a non-empty payload, and it is the tag followed by
\* two digits and a space for each byte; an iteration that is over and whose
\* send returned a non-empty payload has logged its line.
C10_LogLine ==
    \A t \in ThreadIds :
        /\ Len(iter[t].lines) <= 1
        /\ iter[t].lines # <<>> =>
                /\ iter[t].send = "ok" /\ iter[t].data # <<>>
                /\ iter[t].lines[1] = Tag \o ExpectedPayload(iter[t].data)
                /\ iter[t].data = <<1, 2>> =>
                        iter[t].lines[1] = Tag \o <<"0", "1", " ", "0", "2", " ">>
        /\ (IterationOver(t) /\ iter[t].send = "ok" /\ iter[t].data # <<>>) =>
                iter[t].lines # <<>>

C10_Witness ==
    /\ IterationOver(1) /\ iter[1].data = <<1, 2>>
    /\ iter[1].lines = <<Tag \o <<"0", "1", " ", "0", "2", " ">>>>

\* Both callers have made one call each, a start, on the fresh option, and
\* both calls are over.
TwoStartsOver ==
    /\ ncalls = 2 /\ Idle(1) /\ Idle(2)
    /\ IsStartCall(1) /\ IsStartCall(2)

\* C11: of two starts by two threads on a stopped option one ends normally
\* and the other with wrong_api_call_sequence_exception; at most one worker
\* is live in every state; and every thread that was created and not yet
\* joined is the one the handle owns, so that a stop can still join it.
C11_RaceReported ==
    /\ TwoStartsOver => {ret[1], ret[2]} = {"ok", "wrong_api_call_sequence"}
    /\ Cardinality({t \in ThreadIds : Live(t)}) <= 1
    /\ \A t \in ThreadIds : (wpc[t] # "none" /\ ~joined[t]) => handle = t

\* The integer n is the float of h halves with its fraction dropped.
IsTruncOf(n, h) ==
    /\ h >= 0 => (n >= 0 /\ 2 * n <= h /\ h < 2 * n + 2)
    /\ h < 0 => (n <= 0 /\ 2 * n >= h /\ h > 2 * n - 2)

\* A query that returned a value, right after a set(v) that succeeded, with
\* v a float whose truncation fits T.
RoundTripDone ==
    /\ ov_kind = "xu" /\ ov_call.op = "query" /\ ov_call.res = "value"
    /\ ov_last.valid /\ Fits(ov_T, ov_last.v)

\* C12: for an extension-unit option of type T, a query that follows a
\* successful set(v), with v in T's range, returns v with its fraction
\* dropped, as a float.
C12_RoundTrip ==
    RoundTripDone =>
        /\ ov_call.val % 2 = 0
        /\ IsTruncOf(ov_call.val \div 2, ov_last.v)
        /\ TMin(ov_T) <= ov_call.val \div 2 /\ ov_call.val \div 2 <= TMax(ov_T)

\* set(16777218.0f) on an int32_t register, beyond the integers a float
\* holds without gaps, and on a uint8_t register set(127.5f).
C12_Witness ==
    /\ RoundTripDone
    /\ \/ ov_T = "int32_t" /\ ov_last.v = 2 * 16777218 /\ ov_call.val = 2 * 16777218
       \/ ov_T = "uint8_t" /\ ov_last.v = 255 /\ ov_call.val = 2 * 127

\* A get_range that returned a range.
GotRange == ov_call.op = "get_range" /\ ov_call.res = "range"

Ordered(g) == g.min <= g.def /\ g.def <= g.max

C14_StructRangeFixed ==
    ov_kind = "sf" =>
        /\ ov_range = ov_ctor
        /\ GotRange =>
                /\ ov_call.range = ov_ctor
                /\ ov_call.access = "none"
                /\ ov_dev = ov_call.pre

\* The third call is a get_range, after a set that changed the field.
C14_Witness ==
    /\ ov_kind = "sf" /\ GotRange /\ ov_n = 3
    /\ ov_last.valid /\ ov_dev.field = 12 /\ ov_call.range = ov_ctor

\* C15: a call on an extension-unit option makes one transport call; if that
\* fails, the option call ends with the transport's error and gives no value
\* and no range; if it succeeds, the option call succeeds.
C15_TransportErrorPropagates ==
    (ov_kind = "xu" /\ ov_call.op # "none") =>
        /\ ov_call.attempts = 1
        /\ ov_call.transport \in TransportErrors =>
                /\ ov_call.res = "error"
                /\ ov_call.err = ov_call.transport
        /\ ov_call.transport = "ok" => (ov_call.res # "error" /\ ov_call.err = "none")

C15_Witness ==
    /\ ov_kind = "xu" /\ ov_call.op = "query" /\ ov_call.res = "error"
    /\ ov_call.err = "timeout" /\ ov_call.attempts = 1

\* C16: a worker leaves its loop only from the loop test, with the flag down,
\* and a worker that has left belongs to a stop that cleared the flag (one
\* waiting in join for it, or one that has joined it); an iteration whose
\* send threw, or that found the channel expired, ends at the loop test with
\* the worker alive, and with the flag raised the next iteration begins.
C16_WorkerExitsOnlyOnStop ==
    /\ [](\A t \in ThreadIds :
            /\ wpc[t] = "done" =>
                    \/ joined[t]
                    \/ ~keep /\ handle = t /\ \E c \in active : cpc[c] = "stop_join"
            /\ (iter[t].send = "error" \/ iter[t].lock = "expired") =>
                    /\ wpc[t] = "loop"
                    /\ ENABLED WLoop(t))
    /\ [][\A t \in ThreadIds :
            /\ (wpc[t] # "done" /\ wpc'[t] = "done") => (wpc[t] = "loop" /\ ~keep)
            /\ (wpc[t] = "loop" /\ wpc'[t] # "loop" /\ keep) => wpc'[t] = "sleep"]_vars

\* The send of worker 1 threw, the flag is raised, and the worker is at the
\* loop test.
C16_Witness ==
    /\ wpc[1] = "loop" /\ iter[1].send = "error" /\ keep
    /\ ENABLED WLoop(1)

\* C17: a worker reads the flag only in the loop test: with the flag down it
\* ends at most one sleep and at most one send, both of the iteration it was
\* in when the flag fell; the test that finds the flag down leaves the loop,
\* and a worker that has left takes no further step.
C17_AtMostOneIteration ==
    /\ [](\A t \in ThreadIds : post[t].sleeps <= 1 /\ post[t].sends <= 1)
    /\ [][\A t \in ThreadIds :
            /\ (wpc[t] = "loop" /\ ~keep /\ wpc'[t] # wpc[t]) => wpc'[t] = "done"
            /\ (wpc[t] # "loop" /\ wpc'[t] # wpc[t]) => wpc'[t] # "done"
            /\ wpc[t] = "done" =>
                    (wpc'[t] = "done" /\ iter'[t] = iter[t] /\ post'[t] = post[t])]_vars

\* Worker 1 was asleep when the flag fell; it slept on, locked, sent, and left.
C17_Witness ==
    /\ wpc[1] = "done" /\ post[1].sleeps = 1 /\ post[1].sends = 1 /\ ~keep

\* A set(v < 1) made with the flag raised is at the first line of
\* stop_fw_logger.
StopIssued(c) ==
    /\ IsStopCall(c) /\ cur[c].preKeep /\ cpc[c] = "stop_check"

\* C18: with every thread scheduled fairly, a set(v < 1) made while the
\* logger runs returns, normally, with the worker joined.
C18_StopReturns ==
    \A c \in {1} :
        StopIssued(c) ~>
            /\ Idle(c) /\ ret[c] = "ok"
            /\ cur[c].preHandle # NoThread /\ joined[cur[c].preHandle]

\* The stop has returned, and the worker it joined finished a send after the
\* flag fell.
C18_Witness ==
    /\ Idle(1) /\ IsStopCall(1) /\ cur[1].preKeep /\ ret[1] = "ok"
    /\ joined[1] /\ post[1].sends = 1

\* C19 as stated: once the owner has released the channel, no worker holds a
\* strong reference to it.
C19_Original == ~hwOwner => \A t \in ThreadIds : ~strong[t]

\* C19 as amended: a worker holds a strong reference only from its lock() to
\* the end of the same iteration (during send and formatting), never while it
\* sleeps, tests the flag or after it has left; so the channel outlives its
\* owner by at most the iteration in flight, and once it is gone no lock()
\* brings it back.
C19_StrongOnlyInIteration ==
    /\ [](\A t \in ThreadIds : strong[t] => wpc[t] \in {"send", "fmt"})
    /\ [][~hwAlive => ~hwAlive']_vars

\* The owner has released the channel while worker 1 formats what it received.
C19_Witness == ~hwOwner /\ strong[1] /\ wpc[1] = "fmt" /\ hwAlive

\* C20: a set(v >= 1) made with the flag down (at first, or after a stop that
\* returned) returns normally having made exactly one new thread, which the
\* handle now owns and which is the only live one; when start assigns the
\* handle, the thread it held before, if any, has been joined; and no
\* joinable thread is ever destroyed.
C20_Restartable ==
    /\ ~crashed
    /\ \A c \in active :
        /\ cpc[c] = "start_spawn" => (handle = NoThread \/ joined[handle])
        /\ (IsStartCall(c) /\ ~cur[c].preKeep /\ cpc[c] = "start_spawn") =>
                ENABLED StartSpawn(c)
        /\ (IsStartCall(c) /\ ~cur[c].preKeep /\ Idle(c)) =>
                /\ ret[c] = "ok"
                /\ spawned = cur[c].preSpawned + 1
                /\ handle = spawned
                /\ {t \in ThreadIds : Live(t)} = {handle}
                /\ \A t \in 1..(spawned - 1) : joined[t]

\* The second start, after a start and a stop.
C20_Witness ==
    /\ Idle(1) /\ IsStartCall(1) /\ ret[1] = "ok" /\ ~cur[1].preKeep
    /\ spawned = 2 /\ handle = 2 /\ joined[1] /\ Live(2) /\ ncalls = 3

====
